---- MODULE Spec2Model ----
(***************************************************************************)
(* Model of git-squash.py: the main program, SquashOperation and the       *)
(* GitEnv adapter, run against a model of the git repository the adapter   *)
(* drives (commit objects, branches, a tag, HEAD and the index).           *)
(*                                                                         *)
(* The working tree is taken to equal the index throughout: every command  *)
(* the program runs (checkout, apply --index, commit, reset --hard) keeps  *)
(* the two in step, and only the index decides what a commit holds.        *)
(***************************************************************************)
EXTENDS Integers, Sequences, FiniteSets, TLC

\* ------------------------------------------------------------- bounds
\* Commits of the repository before the run: a chain 1 <- 2 <- ... <- InitCommits.
InitCommits == 3

\* The tracked files, and what a committed file can hold.
Files == {"f1", "f2"}
Contents == {"a", "b"}
Flip(c) == IF c = "a" THEN "b" ELSE "a"
\* What a staged file can hold: a committed content, or one no commit has.
StagedContents == Contents \cup {"s"}

\* Identifiers are 1, 2, ...; 0 stands for "no commit" (a root's parent, a
\* reference that does not resolve).
InitShas == 1..InitCommits

BranchNames == {"main", "feature"}
TagNames == {"v1"}
\* The tag sits on the second commit of the chain.
TagSha == IF InitCommits >= 2 THEN 2 ELSE 1
Tags == [t \in TagNames |-> TagSha]

\* A reference as the program passes it to git: a name or a raw identifier.
NameRef(n) == [name |-> n, sha |-> 0]
ShaRef(s) == [name |-> "", sha |-> s]
Refs == {NameRef(n) : n \in BranchNames \cup TagNames \cup {"HEAD", "bogus"}}
          \cup {ShaRef(s) : s \in InitShas}

\* Optional[str]: None is given = FALSE; a string is the sequence of its pieces,
\* the empty string the empty sequence.
None == [given |-> FALSE, text |-> <<>>]
Some(s) == [given |-> TRUE, text |-> s]
Messages == {None, Some(<<>>), Some(<<"fix">>)}

\* Exit statuses of git: 128 for a fatal error, 1 for an ordinary failure.
ExitCodes == {1, 128}

VARIABLES
    objects,        \* sha -> [parent, tree, message]: the commit objects
    branches,       \* branch name -> sha
    HEAD,           \* [branch, sha]: attached to branch, or detached at sha (branch = "")
    index,          \* the staged tree
    args,           \* CmdParser.args: [target, source, m]
    pc,             \* position of the main program
    squash,         \* the SquashOperation instance, or Unbound
    diff_out,       \* the bytes git diff returned, held for git apply
    new_commit_sha, \* local of perform()
    cmds,           \* every git command invoked so far, in order
    err,            \* the exception in flight or reported: [kind, returncode, text]
    exit_code,      \* the process's exit status once pc = "exit"
    reverted        \* how far revert() got: "no", "called", "completed"

vars == <<objects, branches, HEAD, index, args, pc, squash, diff_out,
          new_commit_sha, cmds, err, exit_code, reverted>>

\* The repository as one value, for the operators that model git.
Cur == [objects |-> objects, branches |-> branches, HEAD |-> HEAD, index |-> index]

SetRepo(r) ==
    /\ objects' = r.objects
    /\ branches' = r.branches
    /\ HEAD' = r.HEAD
    /\ index' = r.index

\* ------------------------------------------------------------- git
Attached(b) == [branch |-> b, sha |-> 0]
Detached(s) == [branch |-> "", sha |-> s]

HeadSha(r) == IF r.HEAD.branch # "" THEN r.branches[r.HEAD.branch] ELSE r.HEAD.sha

TreeOf(r, s) == r.objects[s].tree

\* git rev-parse <ref>: the identifier, 0 when the reference does not resolve.
RevParse(r, ref) ==
    IF ref.name = "" THEN (IF ref.sha \in DOMAIN r.objects THEN ref.sha ELSE 0)
    ELSE IF ref.name = "HEAD" THEN HeadSha(r)
    ELSE IF ref.name \in DOMAIN r.branches THEN r.branches[ref.name]
    ELSE IF ref.name \in DOMAIN Tags THEN Tags[ref.name]
    ELSE 0

\* git rev-parse --abbrev-ref <ref>: the short name of the ref; "HEAD" for a
\* detached HEAD; nothing for an identifier, which is no ref.
AbbrevRef(r, ref) ==
    IF ref.name = "" THEN ""
    ELSE IF ref.name = "HEAD"
         THEN (IF r.HEAD.branch # "" THEN r.HEAD.branch ELSE "HEAD")
    ELSE ref.name

\* A finished git process: exit status, standard output, the repository it leaves.
Done(out, r) == [rc |-> 0, out |-> out, repo |-> r]
Failed(code, r) == [rc |-> code, out |-> <<>>, repo |-> r]

\* git diff old new, as a patch: for each file that differs, its old and new content.
TreeDiff(t1, t2) == [f \in {g \in Files : t1[g] # t2[g]} |-> <<t1[f], t2[f]>>]

\* A commit moves the branch HEAD is attached to, or HEAD itself when detached.
MoveHead(r, s) ==
    IF r.HEAD.branch # ""
    THEN [r EXCEPT !.branches = [r.branches EXCEPT ![r.HEAD.branch] = s]]
    ELSE [r EXCEPT !.HEAD = Detached(s)]

NextSha(r) == Cardinality(DOMAIN r.objects) + 1

\* ------------------------------------------------------------- GitEnv
\* Every method runs one git process through cmd(); `env` is FALSE when the
\* process dies of something outside the program's control (a stale
\* index.lock, a full disk), which git reports as a fatal error before it
\* has changed anything.

\* cmd(): check_output raises CalledProcessError on a non-zero exit status.
cmd(r, env, res) == IF env THEN res ELSE Failed(128, r)

\* is_repo_valid(): any failure is swallowed into False.
is_repo_valid(inside_work_tree) == inside_work_tree

\* diff(): git diff --no-color --binary old_ref new_ref
diff(r, old_ref, new_ref, env) ==
    LET o == RevParse(r, old_ref)
        n == RevParse(r, new_ref)
    IN cmd(r, env, IF o = 0 \/ n = 0 THEN Failed(128, r)
                ELSE Done(TreeDiff(TreeOf(r, o), TreeOf(r, n)), r))

\* apply(): git apply --index, the patch on standard input. An empty patch is
\* an error; a hunk applies only where the index holds the hunk's old content.
apply(r, patch, env) ==
    cmd(r, env,
        IF DOMAIN patch = {} THEN Failed(128, r)
        ELSE IF \E f \in DOMAIN patch : r.index[f] # patch[f][1] THEN Failed(1, r)
        ELSE Done(<<>>, [r EXCEPT !.index =
                 [f \in Files |-> IF f \in DOMAIN patch THEN patch[f][2] ELSE r.index[f]]]))

\* commit(): git commit -m message. Refused for an empty message and when
\* nothing is staged; otherwise a new commit on HEAD holding the index.
commit(r, message, env) ==
    cmd(r, env,
        IF message = <<>> THEN Failed(1, r)
        ELSE IF r.index = TreeOf(r, HeadSha(r)) THEN Failed(1, r)
        ELSE LET s == NextSha(r)
                 c == [parent |-> HeadSha(r), tree |-> r.index, message |-> message]
                 r1 == [r EXCEPT !.objects = [x \in DOMAIN r.objects \cup {s} |->
                                              IF x = s THEN c ELSE r.objects[x]]]
             IN Done(<<>>, MoveHead(r1, s)))

\* get_branch(): git rev-parse --abbrev-ref reference, '' for the answer 'HEAD'.
get_branch(r, reference, env) ==
    LET res == cmd(r, env, IF RevParse(r, reference) = 0 THEN Failed(128, r)
                        ELSE Done(AbbrevRef(r, reference), r))
    IN IF res.rc = 0 /\ res.out = "HEAD" THEN Done("", r) ELSE res

\* Mutant of get_sha: a failed rev-parse is swallowed (as is_repo_valid
\* swallows it) and no identifier is returned.
get_sha_Swallow(r, reference, env) ==
    Done(IF env THEN RevParse(r, reference) ELSE 0, r)

\* get_sha(): git rev-parse reference
get_sha(r, reference, env) ==
    cmd(r, env, IF RevParse(r, reference) = 0 THEN Failed(128, r)
             ELSE Done(RevParse(r, reference), r))

\* checkout(): git checkout --quiet reference. A file that differs between
\* HEAD and the commit checked out must be staged as HEAD has it (or already as
\* the new commit has it); staged changes to the other files are carried over.
\* HEAD attaches to a branch name and detaches at anything else.
checkout(r, reference, env) ==
    LET t == RevParse(r, reference)
        old == TreeOf(r, HeadSha(r))
        new == TreeOf(r, t)
    IN cmd(r, env,
        IF t = 0 THEN Failed(1, r)
        ELSE IF \E f \in Files : old[f] # new[f] /\ r.index[f] \notin {old[f], new[f]}
             THEN Failed(1, r)
        ELSE Done(<<>>, [r EXCEPT
                 !.index = [f \in Files |-> IF old[f] # new[f] THEN new[f] ELSE r.index[f]],
                 !.HEAD = IF reference.name \in DOMAIN r.branches
                          THEN Attached(reference.name)
                          ELSE IF reference.name = "HEAD" THEN r.HEAD
                          ELSE Detached(t)]))

\* reset_hard(): git reset --hard reference: the index becomes the commit's
\* tree, and the branch HEAD is attached to (or a detached HEAD) moves to it.
reset_hard(r, reference, env) ==
    LET t == RevParse(r, reference)
    IN cmd(r, env,
        IF t = 0 THEN Failed(128, r)
        ELSE Done(<<>>, MoveHead([r EXCEPT !.index = TreeOf(r, t)], t)))

\* ------------------------------------------------------------- exceptions
NoError == [kind |-> "none", returncode |-> 0, text |-> <<>>, uncaught |-> FALSE]
ValueError(text) ==
    [kind |-> "ValueError", returncode |-> 0, text |-> text, uncaught |-> FALSE]
\* CalledProcessError carries the exit status (the captured stderr is not modelled).
CalledProcessError(rc) ==
    [kind |-> "CalledProcessError", returncode |-> rc, text |-> <<>>, uncaught |-> FALSE]
NameError == [kind |-> "NameError", returncode |-> 0, text |-> <<>>, uncaught |-> TRUE]

Unbound ==
    [bound |-> FALSE, target_ref |-> NameRef(""), target_sha |-> 0, source_sha |-> 0,
     source_branch |-> "", message |-> <<>>]

LogEntry(by, op, arg, res) ==
    [by |-> by, op |-> op, arg |-> arg, rc |-> res.rc, out |-> res.out]
Log(by, op, arg, res) == cmds' = Append(cmds, LogEntry(by, op, arg, res))

Goto(label) == pc' = label /\ UNCHANGED <<err, exit_code, reverted>>

\* An exception leaving the try block of __main__: ValueError is reported and
\* the process exits 1; CalledProcessError enters the handler that calls
\* squash.revert(), a NameError when squash was never assigned.
Raise(e) ==
    IF e.kind = "ValueError"
    THEN /\ pc' = "exit"
         /\ err' = e
         /\ exit_code' = 1
         /\ reverted' = reverted
    ELSE IF squash.bound
    THEN /\ pc' = "revert_checkout"
         /\ err' = e
         /\ exit_code' = exit_code
         /\ reverted' = "called"
    ELSE /\ pc' = "exit"
         /\ err' = NameError
         /\ exit_code' = 1
         /\ reverted' = "called"

\* An exception raised inside the except handler is not caught: the
\* interpreter prints the traceback and exits 1.
RaiseInHandler(e) ==
    /\ pc' = "exit"
    /\ err' = [e EXCEPT !.uncaught = TRUE]
    /\ exit_code' = 1
    /\ reverted' = reverted

\* ------------------------------------------------------------- initial states
RECURSIVE ChainTree(_, _)
\* Commit 1 holds "a" in every file; commit s changes file delta[s] of its
\* parent's tree (no file when delta[s] = "").
ChainTree(delta, s) ==
    IF s = 1 THEN [f \in Files |-> "a"]
    ELSE LET p == ChainTree(delta, s - 1)
         IN [f \in Files |-> IF f = delta[s] THEN Flip(p[f]) ELSE p[f]]

Init ==
    /\ \E delta \in [InitShas -> {""} \cup Files] :
         /\ delta[1] = ""
         /\ objects = [s \in InitShas |->
                        [parent |-> s - 1, tree |-> ChainTree(delta, s), message |-> <<"c">>]]
    /\ branches = [b \in BranchNames |-> IF b = "main" THEN 1 ELSE InitCommits]
    \* HEAD is on a branch, or detached at the tagged commit.
    /\ HEAD \in {Attached(b) : b \in BranchNames} \cup {Detached(TagSha)}
    \* The index is clean, or holds a staged change to one file.
    /\ LET head == objects[IF HEAD.branch # "" THEN branches[HEAD.branch] ELSE HEAD.sha].tree
       IN index \in {t \in [Files -> StagedContents] :
                        Cardinality({f \in Files : t[f] # head[f]}) <= 1}
    /\ args \in [target : Refs, source : Refs, m : Messages]
    /\ pc = "GitEnv"
    /\ squash = Unbound
    /\ diff_out = <<>>
    /\ new_commit_sha = 0
    /\ cmds = <<>>
    /\ err = NoError
    /\ exit_code = -1
    /\ reverted = "no"

\* ------------------------------------------------------------- GitEnv.__init__
GitEnvInit ==
    /\ pc = "GitEnv"
    /\ \E inside_work_tree \in BOOLEAN :
         /\ cmds' = Append(cmds, [by |-> "GitEnv", op |-> "rev-parse --is-inside-work-tree",
                                  arg |-> <<>>, rc |-> 0, out |-> inside_work_tree])
         /\ IF is_repo_valid(inside_work_tree)
            THEN Goto("SquashOperation")
            ELSE Raise(ValueError(<<"repo_path", " is not a valid git repository path">>))
    /\ UNCHANGED <<objects, branches, HEAD, index, args, squash, diff_out, new_commit_sha>>

\* ------------------------------------------------------------- SquashOperation.__init__
\* Mutant of InitExcept: __init__ lets the CalledProcessError through.
InitExcept_PassThrough(e, target_ref, source_ref) == e

\* The except clause of __init__: any CalledProcessError becomes a ValueError.
InitExcept(e, target_ref, source_ref) ==
    ValueError(<<target_ref, " and ", source_ref, " must be both valid git references">>)

\* custom_message or f'Squashed {source_branch}'
EffectiveMessage(custom_message, source_branch) ==
    IF custom_message.given /\ custom_message.text # <<>>
    THEN custom_message.text
    ELSE <<"Squashed ", source_branch>>

SquashOperationInit ==
    /\ pc = "SquashOperation"
    /\ \E e1, e2, e3 \in BOOLEAN :
         LET t == get_sha(Cur, args.target, e1)
             s == get_sha(Cur, args.source, e2)
             b == get_branch(Cur, args.source, e3)
             lt == LogEntry("__init__", "rev-parse", args.target, t)
             ls == LogEntry("__init__", "rev-parse", args.source, s)
             lb == LogEntry("__init__", "rev-parse --abbrev-ref", args.source, b)
         IN IF t.rc # 0
            THEN /\ cmds' = cmds \o <<lt>>
                 /\ Raise(InitExcept(CalledProcessError(t.rc), args.target, args.source))
                 /\ squash' = squash
            ELSE IF s.rc # 0
            THEN /\ cmds' = cmds \o <<lt, ls>>
                 /\ Raise(InitExcept(CalledProcessError(s.rc), args.target, args.source))
                 /\ squash' = squash
            ELSE IF b.rc # 0
            THEN /\ cmds' = cmds \o <<lt, ls, lb>>
                 /\ Raise(InitExcept(CalledProcessError(b.rc), args.target, args.source))
                 /\ squash' = squash
            ELSE /\ cmds' = cmds \o <<lt, ls, lb>>
                 /\ IF b.out = ""
                    THEN /\ Raise(ValueError(<<args.source, " must be a branch">>))
                         /\ squash' = squash
                    ELSE /\ squash' = [bound |-> TRUE, target_ref |-> args.target,
                                       target_sha |-> t.out, source_sha |-> s.out,
                                       source_branch |-> b.out,
                                       message |-> EffectiveMessage(args.m, b.out)]
                         /\ Goto("perform_checkout")
    /\ UNCHANGED <<objects, branches, HEAD, index, args, diff_out, new_commit_sha>>

\* ------------------------------------------------------------- SquashOperation.perform
\* One git command of perform(): the repository changes as the command left
\* it; a non-zero exit raises CalledProcessError out of perform().
PerformStep(op, arg, res, next) ==
    /\ Log("perform", op, arg, res)
    /\ SetRepo(res.repo)
    /\ IF res.rc = 0 THEN Goto(next) ELSE Raise(CalledProcessError(res.rc))

\* Mutant of Perform_checkout: the target is checked out by the reference the
\* user gave, not by its identifier.
Perform_checkout_TargetRef ==
    /\ pc = "perform_checkout"
    /\ \E env \in BOOLEAN :
         LET arg == squash.target_ref
         IN PerformStep("checkout", arg, checkout(Cur, arg, env), "perform_diff")
    /\ UNCHANGED <<args, squash, diff_out, new_commit_sha>>

\* self.git.checkout(self.target_sha)
Perform_checkout ==
    /\ pc = "perform_checkout"
    /\ \E env \in BOOLEAN :
         LET arg == ShaRef(squash.target_sha)
         IN PerformStep("checkout", arg, checkout(Cur, arg, env), "perform_diff")
    /\ UNCHANGED <<args, squash, diff_out, new_commit_sha>>

\* self.git.diff(self.target_sha, self.source_branch)
Perform_diff ==
    /\ pc = "perform_diff"
    /\ \E env \in BOOLEAN :
         LET old_ref == ShaRef(squash.target_sha)
             new_ref == NameRef(squash.source_branch)
             res == diff(Cur, old_ref, new_ref, env)
         IN /\ PerformStep("diff", <<old_ref, new_ref>>, res, "perform_apply")
            /\ diff_out' = IF res.rc = 0 THEN res.out ELSE diff_out
    /\ UNCHANGED <<args, squash, new_commit_sha>>

\* self.git.apply(<the diff>)
Perform_apply ==
    /\ pc = "perform_apply"
    /\ \E env \in BOOLEAN :
         PerformStep("apply", diff_out, apply(Cur, diff_out, env), "perform_commit")
    /\ UNCHANGED <<args, squash, diff_out, new_commit_sha>>

\* self.git.commit(self.message)
Perform_commit ==
    /\ pc = "perform_commit"
    /\ \E env \in BOOLEAN :
         PerformStep("commit", squash.message, commit(Cur, squash.message, env),
                     "perform_get_sha")
    /\ UNCHANGED <<args, squash, diff_out, new_commit_sha>>

\* new_commit_sha = self.git.get_sha()
Perform_get_sha ==
    /\ pc = "perform_get_sha"
    /\ \E env \in BOOLEAN :
         LET res == get_sha(Cur, NameRef("HEAD"), env)
         IN /\ PerformStep("rev-parse", NameRef("HEAD"), res, "perform_checkout_source")
            /\ new_commit_sha' = IF res.rc = 0 THEN res.out ELSE new_commit_sha
    /\ UNCHANGED <<args, squash, diff_out>>

\* self.git.checkout(self.source_branch)
Perform_checkout_source ==
    /\ pc = "perform_checkout_source"
    /\ \E env \in BOOLEAN :
         LET arg == NameRef(squash.source_branch)
         IN PerformStep("checkout", arg, checkout(Cur, arg, env), "perform_reset")
    /\ UNCHANGED <<args, squash, diff_out, new_commit_sha>>

\* Mutant of Perform_reset: the branch is reset to the identifier it had.
Perform_reset_SourceSha ==
    /\ pc = "perform_reset"
    /\ \E env \in BOOLEAN :
         LET arg == ShaRef(squash.source_sha)
             res == reset_hard(Cur, arg, env)
         IN /\ Log("perform", "reset --hard", arg, res)
            /\ SetRepo(res.repo)
            /\ IF res.rc = 0
               THEN /\ pc' = "exit"
                    /\ exit_code' = 0
                    /\ UNCHANGED <<err, reverted>>
               ELSE Raise(CalledProcessError(res.rc))
    /\ UNCHANGED <<args, squash, diff_out, new_commit_sha>>

\* self.git.reset_hard(new_commit_sha); then, back in __main__, the success
\* message is logged and the program ends with status 0.
Perform_reset ==
    /\ pc = "perform_reset"
    /\ \E env \in BOOLEAN :
         LET arg == ShaRef(new_commit_sha)
             res == reset_hard(Cur, arg, env)
         IN /\ Log("perform", "reset --hard", arg, res)
            /\ SetRepo(res.repo)
            /\ IF res.rc = 0
               THEN /\ pc' = "exit"
                    /\ exit_code' = 0
                    /\ UNCHANGED <<err, reverted>>
               ELSE Raise(CalledProcessError(res.rc))
    /\ UNCHANGED <<args, squash, diff_out, new_commit_sha>>

\* ------------------------------------------------------------- SquashOperation.revert
\* self.git.checkout(self.source_branch), inside the except handler
Revert_checkout ==
    /\ pc = "revert_checkout"
    /\ \E env \in BOOLEAN :
         LET arg == NameRef(squash.source_branch)
             res == checkout(Cur, arg, env)
         IN /\ Log("revert", "checkout", arg, res)
            /\ SetRepo(res.repo)
            /\ IF res.rc = 0
               THEN Goto("revert_reset")
               ELSE RaiseInHandler(CalledProcessError(res.rc))
    /\ UNCHANGED <<args, squash, diff_out, new_commit_sha>>

\* Mutant of Revert_reset: the branch is reset to the target's identifier.
Revert_reset_TargetSha ==
    /\ pc = "revert_reset"
    /\ \E env \in BOOLEAN :
         LET arg == ShaRef(squash.target_sha)
             res == reset_hard(Cur, arg, env)
         IN /\ Log("revert", "reset --hard", arg, res)
            /\ SetRepo(res.repo)
            /\ IF res.rc = 0
               THEN /\ pc' = "exit"
                    /\ exit_code' = err.returncode % 256
                    /\ reverted' = "completed"
                    /\ err' = err
               ELSE RaiseInHandler(CalledProcessError(res.rc))
    /\ UNCHANGED <<args, squash, diff_out, new_commit_sha>>

\* self.git.reset_hard(self.source_sha); then the handler logs e.stderr and
\* calls sys.exit(e.returncode) with the exception perform() raised.
Revert_reset ==
    /\ pc = "revert_reset"
    /\ \E env \in BOOLEAN :
         LET arg == ShaRef(squash.source_sha)
             res == reset_hard(Cur, arg, env)
         IN /\ Log("revert", "reset --hard", arg, res)
            /\ SetRepo(res.repo)
            /\ IF res.rc = 0
               THEN /\ pc' = "exit"
                    /\ exit_code' = err.returncode % 256
                    /\ reverted' = "completed"
                    /\ err' = err
               ELSE RaiseInHandler(CalledProcessError(res.rc))
    /\ UNCHANGED <<args, squash, diff_out, new_commit_sha>>

Next ==
    \/ GitEnvInit
    \/ SquashOperationInit
    \/ Perform_checkout
    \/ Perform_diff
    \/ Perform_apply
    \/ Perform_commit
    \/ Perform_get_sha
    \/ Perform_checkout_source
    \/ Perform_reset
    \/ Revert_checkout
    \/ Revert_reset

Spec == Init /\ [][Next]_vars

\* ------------------------------------------------------------- vocabulary of the claims
PerformCmds == SelectSeq(cmds, LAMBDA c : c.by = "perform")
RevertCmds == SelectSeq(cmds, LAMBDA c : c.by = "revert")
InitCmds == SelectSeq(cmds, LAMBDA c : c.by = "__init__")

Mutating(c) == c.op \in {"checkout", "apply", "commit", "reset --hard"}

PerformFailed == \E i \in DOMAIN PerformCmds : PerformCmds[i].rc # 0
PerformSucceeded == Len(PerformCmds) = 7 /\ ~PerformFailed

RECURSIVE IsProperAncestor(_, _, _)
\* Commit a is reached from commit s by following parents at least once.
IsProperAncestor(o, a, s) ==
    LET p == o[s].parent
    IN IF p = 0 THEN FALSE ELSE p = a \/ IsProperAncestor(o, a, p)

\* Where the source branch name the operation holds points now.
SourceNow == RevParse(Cur, NameRef(squash.source_branch))

\* The commit perform() created, if it got that far.
CreatedCommits == DOMAIN objects \ InitShas

\* C1: when target and source resolve, the source is a branch strictly ahead
\* of the target and every command of perform() succeeds, the source branch
\* ends at a new commit whose only parent is the target's identifier and whose
\* content is that of the source branch's original tip.
C1_SquashedCommit ==
    (/\ pc = "exit"
     /\ squash.bound
     /\ PerformSucceeded
     /\ squash.source_branch \in DOMAIN branches
     /\ IsProperAncestor(objects, squash.target_sha, squash.source_sha))
    => LET n == branches[squash.source_branch]
       IN /\ n \in CreatedCommits
          /\ objects[n].parent = squash.target_sha
          /\ objects[n].tree = objects[squash.source_sha].tree

\* C2: once revert() has been entered and the program has exited, the source
\* branch resolves to the identifier it had before perform(); and every run
\* that reached perform() ends with the source branch at that identifier or at
\* the new squashed commit.
C2_RevertRestores ==
    /\ (pc = "exit" /\ reverted # "no") => SourceNow = squash.source_sha
    /\ (pc = "exit" /\ squash.bound) =>
          \/ SourceNow = squash.source_sha
          \/ SourceNow = new_commit_sha /\ new_commit_sha \in CreatedCommits

\* C2 witness: perform() failed at its last step and revert() ran to its end.
C2_Witness ==
    /\ pc = "exit"
    /\ reverted = "completed"
    /\ Len(PerformCmds) = 7
    /\ PerformCmds[7].rc # 0
    /\ SourceNow = squash.source_sha

\* C3 as stated: whatever the target reference is (HEAD included), it
\* resolves after perform(), or after revert() when that ran, to what it
\* resolved to at construction.
C3_TargetNeverMoves ==
    (pc = "exit" /\ squash.bound /\ (PerformSucceeded \/ reverted = "completed"))
    => RevParse(Cur, squash.target_ref) = squash.target_sha

\* C3 amended: a target reference other than the symbolic name HEAD (a
\* branch, also the source branch itself, a tag or a raw identifier) resolves
\* after perform(), and after revert() if it ran, to what it resolved to at
\* construction.
C3_NamedTargetNeverMoves ==
    (pc = "exit" /\ squash.bound /\ squash.target_ref.name # "HEAD")
    => RevParse(Cur, squash.target_ref) = squash.target_sha

\* C3 witness: feature was squashed onto the branch main, and feature moved.
C3_Witness ==
    /\ pc = "exit"
    /\ exit_code = 0
    /\ squash.target_ref = NameRef("main")
    /\ squash.source_branch = "feature"
    /\ branches["feature"] \in CreatedCommits
    /\ branches["main"] = squash.target_sha

\* C4: when the target or the source does not resolve, construction fails
\* with "<target> and <source> must be both valid git references" and the run
\* invokes no mutating command; and in every run a mutating command comes only
\* after both references were resolved successfully.
C4_NoMutationBeforeResolution ==
    /\ (/\ pc = "exit"
        /\ Len(InitCmds) > 0
        /\ (RevParse(Cur, args.target) = 0 \/ RevParse(Cur, args.source) = 0))
       => /\ ~squash.bound
          /\ err = ValueError(<<args.target, " and ", args.source,
                                " must be both valid git references">>)
          /\ exit_code = 1
          /\ \A i \in DOMAIN cmds : ~Mutating(cmds[i])
    /\ \A i \in DOMAIN cmds :
          Mutating(cmds[i]) =>
             \E j, k \in 1..(i - 1) :
                /\ j < k
                /\ cmds[j].by = "__init__" /\ cmds[j].op = "rev-parse"
                /\ cmds[j].arg = args.target /\ cmds[j].rc = 0
                /\ cmds[k].by = "__init__" /\ cmds[k].op = "rev-parse"
                /\ cmds[k].arg = args.source /\ cmds[k].rc = 0
                /\ RevParse(Cur, ShaRef(cmds[j].out)) # 0
                /\ RevParse(Cur, ShaRef(cmds[k].out)) # 0

\* C4 witness: the target resolved, the source did not, and the run ended in
\* the domain error.
C4_Witness ==
    /\ pc = "exit"
    /\ args.target = NameRef("main")
    /\ args.source = NameRef("bogus")
    /\ Len(InitCmds) = 2
    /\ err.kind = "ValueError"

\* C5: a source that resolves but names no branch (a detached HEAD, a raw
\* identifier, a tag) fails construction with "<source> must be a branch";
\* whenever perform() runs, source_branch names a branch.
C5_SourceIsBranch ==
    /\ squash.bound => squash.source_branch \in DOMAIN branches
    /\ (/\ pc = "exit"
        /\ Len(InitCmds) = 3
        /\ \A i \in DOMAIN InitCmds : InitCmds[i].rc = 0
        /\ args.source.name \notin DOMAIN branches \cup {"HEAD"})
       => /\ ~squash.bound
          /\ err = ValueError(<<args.source, " must be a branch">>)

\* C6: the exit status is 0 when the whole sequence succeeds, 1 on a domain
\* error, and otherwise the exit status of a git command that failed, also
\* when a command of revert() failed.
C6_ExitCode ==
    pc = "exit" =>
       LET failed == {PerformCmds[i].rc : i \in {j \in DOMAIN PerformCmds : PerformCmds[j].rc # 0}}
                     \cup {RevertCmds[i].rc : i \in {j \in DOMAIN RevertCmds : RevertCmds[j].rc # 0}}
       IN IF failed # {} THEN exit_code \in failed
          ELSE IF PerformSucceeded THEN exit_code = 0
          ELSE exit_code = 1 /\ err.kind = "ValueError"

\* C7: the message given to git commit is "Squashed <source branch>" when no
\* custom message was given, and otherwise the custom message itself, the
\* empty string included.
C7_CommitMessage ==
    \A i \in DOMAIN cmds :
       cmds[i].op = "commit" =>
          cmds[i].arg = IF args.m.given THEN args.m.text
                        ELSE <<"Squashed ", squash.source_branch>>

\* C8: revert() is entered only after a command of perform() failed: never
\* after a successful perform(), never on a domain error, never with the
\* operation instance unbound.
C8_RevertOnlyAfterPerformFailed ==
    /\ (reverted # "no" \/ Len(RevertCmds) > 0) =>
          /\ squash.bound
          /\ PerformFailed
          /\ err.kind = "CalledProcessError"
    /\ PerformSucceeded => reverted = "no"
    /\ err.kind \in {"ValueError", "NameError"} => reverted = "no" /\ ~squash.bound

\* C8 witness: a command of perform() failed and revert() ran to its end.
C8_Witness ==
    /\ pc = "exit"
    /\ reverted = "completed"
    /\ Len(RevertCmds) = 2
    /\ PerformFailed

\* C9: perform() runs checkout(target identifier), diff(target identifier,
\* source branch), apply, commit, rev-parse HEAD, checkout(source branch),
\* reset --hard(new identifier) in that order, each at most once, each only
\* after every earlier one succeeded; the identifier reset to is the one
\* rev-parse HEAD gave right after the commit, that of the commit just made.
C9_PerformOrder ==
    LET P == PerformCmds
        ops == <<"checkout", "diff", "apply", "commit", "rev-parse", "checkout", "reset --hard">>
    IN /\ Len(P) <= Len(ops)
       /\ \A i \in DOMAIN P :
             /\ P[i].op = ops[i]
             /\ i < Len(P) => P[i].rc = 0
       /\ Len(P) >= 1 => P[1].arg = ShaRef(squash.target_sha)
       /\ Len(P) >= 2 => P[2].arg = <<ShaRef(squash.target_sha), NameRef(squash.source_branch)>>
       /\ Len(P) >= 3 => P[3].arg = P[2].out
       /\ Len(P) >= 4 => P[4].arg = squash.message
       /\ Len(P) >= 5 => P[5].arg = NameRef("HEAD")
       /\ Len(P) >= 6 => /\ P[6].arg = NameRef(squash.source_branch)
                         /\ P[5].out \in CreatedCommits
                         /\ objects[P[5].out].parent = squash.target_sha
       /\ Len(P) >= 7 => P[7].arg = ShaRef(P[5].out)

\* C9 witness: all seven commands ran and succeeded.
C9_Witness ==
    /\ pc = "exit"
    /\ exit_code = 0
    /\ PerformSucceeded

\* C10: a run that reached perform() and exited after perform() succeeded or
\* after revert() completed leaves HEAD attached to the source branch.
C10_HeadOnSourceBranch ==
    (/\ pc = "exit"
     /\ squash.bound
     /\ (PerformSucceeded \/ reverted = "completed"))
    => /\ HEAD.branch = squash.source_branch
       /\ HEAD.branch \in DOMAIN branches

====
